---- MODULE Spec2Model ----
(***************************************************************************)
(* Model of MaxflowClient (src/maxflowClient.ts): the debounced push       *)
(* queue, its two timers, the lazily validated transport and the per-item  *)
(* settlement of a flush.                                                  *)
(*                                                                         *)
(* Time is relative: every pending timer carries the milliseconds left     *)
(* until it is due, and Tick never lets time pass a due timer, so timer    *)
(* callbacks run at their deadline, earliest deadline first.  clearTimeout *)
(* removes a timer from the pending set, after which it cannot fire.       *)
(* One action is one event-loop task: the synchronous part of a call or    *)
(* callback together with the microtasks it leaves behind.                 *)
(***************************************************************************)
EXTENDS Integers, Sequences, FiniteSets, TLC

\* ---------------------------------------------------------------- bounds
MaxPush == 2          \* non-immediate push calls in a behaviour
MaxImmediate == 1     \* immediate push calls in a behaviour
MaxDirect == 1        \* processQueue invocations that do not come from a timer
MaxSet == 1           \* credential setter calls in a behaviour
MaxMatch == 2         \* triples in a match list given to pulse.find
MaxOrder == 2         \* entries in an orderBy list given to pulse.find
MaxCalls == 3         \* operations called on the client that has public calls
ClockCap == 1000      \* the clock of the batch's wait saturates here

\* ------------------------------------------------------ program constants
QUEUE_DELAY == 360
\* A max wait no longer than the quiet delay.
MaxQueueTimeAsQuietDelay == QUEUE_DELAY
MAX_QUEUE_TIME == 1000
NullHandle == 0       \* a timer handle field holding null

Null == "null"

\* Values the callers pass.  An absent option is the empty set, a given one
\* is the singleton of its value.
DebounceValues == {{}, {0}, {200}}
MaxWaitValues == {{}, {0}, {200}}
PushOptionsSet ==
  {o \in [debounce : DebounceValues, debounce_max_wait : MaxWaitValues] :
     o.debounce = {} \/ o.debounce_max_wait = {}}
NoOptions == [debounce |-> {}, debounce_max_wait |-> {}]
Configs ==
  {[apiKey |-> "k1", teamId |-> "t1", apiSecret |-> "s1"],
   [apiKey |-> Null, teamId |-> "t1", apiSecret |-> "s1"],
   [apiKey |-> "k1", teamId |-> Null, apiSecret |-> "s1"],
   [apiKey |-> Null, teamId |-> Null, apiSecret |-> Null]}
ApiKeyValues == {"", "k2"}
TeamIdValues == {"t2"}
BaseURLValues == {"u2"}
TickSteps == {200}

\* What callers pass to pulse.find.  A value stands for its JSON text; an
\* absent match is the empty set, a given one the singleton of its list.
MatchFields == {"status", "a"}
MatchOperators == {"eq", "gt", "bogus"}
MatchValues == {"active", "1", "2"}
MatchItems == [field : MatchFields, operator : MatchOperators, value : MatchValues]
MatchLists == UNION {[1..n -> MatchItems] : n \in 0..MaxMatch}
\* A match given as one object instead of a list: a mapping from field
\* names to condition objects, or a single {field, operator, value}.
FlatConditions == {[k \in {"$eq"} |-> "12345"], [k \in {"$gte"} |-> "2023-01-01"]}
FlatMatches ==
  UNION {[D -> FlatConditions] : D \in (SUBSET {"userId", "createdAt"}) \ {{}}}
    \cup MatchItems
PageValues == {{}, {0}, {1}}
PageSizeValues == {{}, {0}, {25}}
SearchValues == {{}, {[fields |-> <<"title">>, text |-> "x"]}}
OrderFields == {"ts"}
OrderKeywords == {{}, {"asc"}, {"desc"}}
DirectionValues == {{}, {0}, {-1}, {5}}
OrderItems == [field : OrderFields, order : OrderKeywords, direction : DirectionValues]
OrderLists == UNION {[1..n -> OrderItems] : n \in 0..MaxOrder}
\* The descriptor with no field given.  match holds a match given as a
\* list, flatMatch one given as an object (data.match has one shape or the
\* other).
NoFind ==
  [match |-> {}, flatMatch |-> {}, page |-> {}, pageSize |-> {}, search |-> {},
   orderBy |-> {}]
\* The descriptors tried: each part of the descriptor over all its values
\* with the other parts absent, and short lists of every part together.
FindInputs ==
  {[NoFind EXCEPT !.match = {l}] : l \in MatchLists}
    \cup {NoFind}
    \cup {[NoFind EXCEPT !.flatMatch = {m}] : m \in FlatMatches}
    \cup {[NoFind EXCEPT !.page = p, !.pageSize = z, !.search = t] :
            p \in PageValues, z \in PageSizeValues, t \in SearchValues}
    \cup {[NoFind EXCEPT !.orderBy = {o}] : o \in OrderLists}
    \cup {[NoFind EXCEPT !.match = {l}, !.page = p, !.orderBy = {o}] :
            l \in {m \in MatchLists : Len(m) = 1}, p \in PageValues,
            o \in {q \in OrderLists : Len(q) = 1}}
\* The client of src/src/maxflowClient.ts, which has an application id and
\* public calls: the configurations it is constructed with, the values its
\* setters are given, and the identity headers of its authenticated calls.
AppConfigs ==
  {[apiKey |-> "k1", teamId |-> "t1", apiSecret |-> "s1", applicationId |-> "a1"],
   [apiKey |-> "k1", teamId |-> "t1", apiSecret |-> "s1", applicationId |-> Null],
   [apiKey |-> Null, teamId |-> "t1", apiSecret |-> Null, applicationId |-> Null],
   [apiKey |-> Null, teamId |-> Null, apiSecret |-> Null, applicationId |-> Null]}
AppKeyValues == {<<"k2", "s2">>, <<"", "">>}
AppIdValues == {"a2"}
AuthHeaderNames == {"x-api-key", "x-max-team-id", "x-api-secret", "x-max-application-id"}

\* The files that implement pulse.find.
FindImpls == {"maxflowClient.ts", "maxflow.ts"}
NoCall == [query |-> <<>>, outcome |-> "none"]

VARIABLES
  apiKey, apiSecret, teamId,   \* credentials
  baseURL,                     \* base URL of the API
  axiosInstance,               \* TRUE once the transport instance is cached
  queue,                       \* queued items [id, options], insertion order
  pushTimeout, maxAgeTimeout,  \* timer handles (NullHandle or a timer id)
  timers,                      \* the runtime's pending timers
  nextTimer,                   \* next handle the runtime hands out
  inflight,                    \* transport requests awaiting their outcome
  dispatchSeq,                 \* number of transport requests initiated
  items,                       \* one record per non-immediate push
  immediates,                  \* one record per immediate push
  nFlush,                      \* number of non-empty flushes so far
  lastFlush,                   \* what the flush since the latest push did
  caught,                      \* flushes whose outer catch has run
  sinceLast,                   \* ms since the latest non-immediate push, up to lastQuiet
  sinceFirst,                  \* ms the latest batch has waited in the queue
  lastQuiet,                   \* quiet delay chosen by the latest push
  batchMaxWait,                \* max wait chosen by the latest batch's first push
  nSet,                        \* setter calls so far
  nDirect,                     \* direct processQueue invocations so far
  emptyFlushes,                \* processQueue invocations that found no item
  findData,                    \* the argument of the pulse.find call
  findCall,                    \* the query pulse.find built and what became of it
  findImpl,                    \* the file whose pulse.find is called
  applicationId,               \* credential of the client of src/src/maxflowClient.ts
  instanceHeaders,             \* identity headers of its cached transport instance
  appCalls,                    \* its operations so far: kind, outcome, headers sent
  wiretap                      \* TRUE when what each request carries is recorded

credVars == <<apiKey, apiSecret, teamId, baseURL>>
queueVars == <<queue, pushTimeout, maxAgeTimeout, timers, nextTimer>>
netVars == <<axiosInstance, inflight, dispatchSeq>>
logVars == <<items, immediates, nFlush, lastFlush, caught>>
clockVars == <<sinceLast, sinceFirst, lastQuiet, batchMaxWait>>
callVars == <<nDirect, emptyFlushes>>
findVars == <<findData, findCall, findImpl>>
appVars == <<applicationId, instanceHeaders, appCalls>>
vars == <<credVars, nSet, queueVars, netVars, logVars, clockVars, callVars, findVars,
          appVars, wiretap>>

\* --------------------------------------------------------------- helpers
Min(a, b) == IF a <= b THEN a ELSE b

Ids(q) == {q[k].id : k \in 1..Len(q)}

\* JavaScript truthiness of a credential: null and '' are falsy.
Falsy(x) == x \in {Null, ""}

\* a ?? b on an optional number
Nullish(opt, default) == IF opt = {} THEN default ELSE CHOOSE v \in opt : TRUE

\* clearTimeout(handle): a cleared timer is no longer pending.
ClearTimeout(tm, handle) == {t \in tm : t.id # handle}

\* validateConfig(): the error it throws, or "ok".
ValidateConfig ==
  IF Falsy(apiKey) THEN "API Key is not set"
  ELSE IF Falsy(teamId) THEN "Team ID is not set"
  ELSE IF Falsy(apiSecret) THEN "API Secret is not set"
  ELSE "ok"

\* An http() that never validates.
HttpOkUnvalidated == TRUE

\* http(): validates only while no instance is cached; returns the instance
\* (TRUE) or throws the configuration error (FALSE).
HttpOk == axiosInstance \/ ValidateConfig = "ok"

\* ------------------------------------------------------------------ Init
\* The state after construction: the optional config sets the credentials
\* or leaves them null; queue empty, no timer, no transport instance.
NoFlush ==
  [trigger |-> "none", size |-> 0, requests |-> 0, waited |-> 0, maxWait |-> 0,
   quietPending |-> FALSE, raced |-> FALSE, defaults |-> FALSE]

Init ==
  /\ \E c \in Configs :
       /\ apiKey = c.apiKey
       /\ teamId = c.teamId
       /\ apiSecret = c.apiSecret
  /\ baseURL = "https://maxflow.cloud"
  /\ axiosInstance = FALSE
  /\ queue = <<>>
  /\ pushTimeout = NullHandle
  /\ maxAgeTimeout = NullHandle
  /\ timers = {}
  /\ nextTimer = 1
  /\ inflight = {}
  /\ dispatchSeq = 0
  /\ items = <<>>
  /\ immediates = <<>>
  /\ nFlush = 0
  /\ lastFlush = NoFlush
  /\ caught = {}
  /\ sinceLast = 0
  /\ sinceFirst = ClockCap
  /\ lastQuiet = 0
  /\ batchMaxWait = 0
  /\ nSet = 0
  /\ nDirect = 0
  /\ emptyFlushes = 0
  /\ findData = NoFind
  /\ findCall = NoCall
  /\ findImpl = "maxflowClient.ts"
  /\ applicationId = Null
  /\ instanceHeaders = <<>>
  /\ appCalls = <<>>
  /\ wiretap = FALSE

\* --------------------------------------------------------------- setters
SetApiKey(key) ==
  /\ nSet < MaxSet
  /\ nSet' = nSet + 1
  /\ apiKey' = key
  /\ UNCHANGED <<apiSecret, teamId, baseURL, queueVars, netVars, logVars, clockVars, callVars,
                 findVars, appVars, wiretap>>

SetTeamId(id) ==
  /\ nSet < MaxSet
  /\ nSet' = nSet + 1
  /\ teamId' = id
  /\ UNCHANGED <<apiKey, apiSecret, baseURL, queueVars, netVars, logVars, clockVars,
                 callVars, findVars, appVars, wiretap>>

SetBaseURL(url) ==
  /\ nSet < MaxSet
  /\ nSet' = nSet + 1
  /\ baseURL' = url
  /\ UNCHANGED <<apiKey, apiSecret, teamId, queueVars, netVars, logVars, clockVars,
                 callVars, findVars, appVars, wiretap>>

\* An http() through which setBaseURL never reaches the instance: every
\* request goes to the default base URL.
RequestCredentialsStale ==
  [apiKey |-> apiKey, teamId |-> teamId, apiSecret |-> apiSecret,
   baseURL |-> "https://maxflow.cloud"]

\* What http() puts on the instance at every call, and so what a request
\* initiated on it carries: the current credentials and base URL.
RequestCredentials ==
  [apiKey |-> apiKey, teamId |-> teamId, apiSecret |-> apiSecret,
   baseURL |-> baseURL]

\* The record of x that is kept: x itself while the wiretap is on.
Recorded(x) == IF wiretap THEN x ELSE <<>>

\* ------------------------------------------------------------------ push
\* A push that starts no max-age timer.
PushTimersNoMax(opts, newLen) ==
  LET cleared == IF pushTimeout # NullHandle
                 THEN ClearTimeout(timers, pushTimeout) ELSE timers
  IN  cleared \cup {[id |-> nextTimer, kind |-> "quiet",
                     left |-> Nullish(opts.debounce, QUEUE_DELAY)]}

\* A push that leaves a pending quiet timer running instead of restarting it.
PushTimersNoReset(opts, newLen) ==
  LET quiet == [id |-> nextTimer, kind |-> "quiet",
                left |-> Nullish(opts.debounce, QUEUE_DELAY)]
      maxAge == [id |-> nextTimer + 1, kind |-> "max",
                 left |-> Nullish(opts.debounce_max_wait, MAX_QUEUE_TIME)]
  IN  IF newLen = 1 THEN timers \cup {quiet, maxAge} ELSE timers

\* A push that restarts the pending max-age timer with its own max wait.
PushTimersRestartMax(opts, newLen) ==
  LET cleared == IF pushTimeout # NullHandle
                 THEN ClearTimeout(timers, pushTimeout) ELSE timers
      quiet == [id |-> nextTimer, kind |-> "quiet",
                left |-> Nullish(opts.debounce, QUEUE_DELAY)]
      maxAge == [id |-> nextTimer + 1, kind |-> "max",
                 left |-> Nullish(opts.debounce_max_wait, MAX_QUEUE_TIME)]
  IN  IF newLen = 1 THEN cleared \cup {quiet, maxAge}
      ELSE {IF t.kind = "max" THEN [t EXCEPT !.left = maxAge.left] ELSE t :
              t \in cleared} \cup {quiet}

\* A push that takes a debounce of 0 for an absent one (|| in place of ??).
PushTimersFalsyDebounce(opts, newLen) ==
  LET cleared == IF pushTimeout # NullHandle
                 THEN ClearTimeout(timers, pushTimeout) ELSE timers
      quiet == [id |-> nextTimer, kind |-> "quiet",
                left |-> IF opts.debounce \in {{}, {0}} THEN QUEUE_DELAY
                         ELSE Nullish(opts.debounce, QUEUE_DELAY)]
      maxAge == [id |-> nextTimer + 1, kind |-> "max",
                 left |-> Nullish(opts.debounce_max_wait, MAX_QUEUE_TIME)]
  IN  IF newLen = 1 THEN cleared \cup {quiet, maxAge} ELSE cleared \cup {quiet}

\* A push that takes a debounce_max_wait of 0 for an absent one.
PushTimersFalsyMaxWait(opts, newLen) ==
  LET cleared == IF pushTimeout # NullHandle
                 THEN ClearTimeout(timers, pushTimeout) ELSE timers
      quiet == [id |-> nextTimer, kind |-> "quiet",
                left |-> Nullish(opts.debounce, QUEUE_DELAY)]
      maxAge == [id |-> nextTimer + 1, kind |-> "max",
                 left |-> IF opts.debounce_max_wait \in {{}, {0}} THEN MAX_QUEUE_TIME
                          ELSE Nullish(opts.debounce_max_wait, MAX_QUEUE_TIME)]
  IN  IF newLen = 1 THEN cleared \cup {quiet, maxAge} ELSE cleared \cup {quiet}

\* A push that starts its quiet timer without clearing the pending one.
PushTimersKeepOld(opts, newLen) ==
  LET quiet == [id |-> nextTimer, kind |-> "quiet",
                left |-> Nullish(opts.debounce, QUEUE_DELAY)]
      maxAge == [id |-> nextTimer + 1, kind |-> "max",
                 left |-> Nullish(opts.debounce_max_wait, MAX_QUEUE_TIME)]
  IN  IF newLen = 1 THEN timers \cup {quiet, maxAge} ELSE timers \cup {quiet}

\* The timers a non-immediate push leaves pending: the old quiet timer is
\* cleared and a new one started; the max-age timer is started only when
\* the queue has just become one item long.
PushTimers(opts, newLen) ==
  LET cleared == IF pushTimeout # NullHandle
                 THEN ClearTimeout(timers, pushTimeout) ELSE timers
      quiet == [id |-> nextTimer, kind |-> "quiet",
                left |-> Nullish(opts.debounce, QUEUE_DELAY)]
      maxAge == [id |-> nextTimer + 1, kind |-> "max",
                 left |-> Nullish(opts.debounce_max_wait, MAX_QUEUE_TIME)]
  IN  IF newLen = 1 THEN cleared \cup {quiet, maxAge} ELSE cleared \cup {quiet}

\* push(reqdata, options) without options.immediately.
Push(opts) ==
  /\ Len(items) < MaxPush
  /\ LET id == Len(items) + 1
         newLen == Len(queue) + 1
     IN  /\ queue' = Append(queue, [id |-> id, options |-> opts])
         /\ timers' = PushTimers(opts, newLen)
         /\ pushTimeout' = nextTimer
         /\ maxAgeTimeout' = IF newLen = 1 THEN nextTimer + 1 ELSE maxAgeTimeout
         /\ nextTimer' = IF newLen = 1 THEN nextTimer + 2 ELSE nextTimer + 1
         /\ items' = Append(items,
              [state |-> "queued", req |-> 0, flush |-> 0, outcome |-> "none",
               calls |-> <<>>, enqueued |-> Recorded(RequestCredentials)])
         /\ sinceLast' = 0
         /\ sinceFirst' = IF newLen = 1 THEN 0 ELSE sinceFirst
         /\ lastQuiet' = Nullish(opts.debounce, QUEUE_DELAY)
         /\ batchMaxWait' = IF newLen = 1
                            THEN Nullish(opts.debounce_max_wait, MAX_QUEUE_TIME)
                            ELSE batchMaxWait
  /\ lastFlush' = NoFlush
  /\ UNCHANGED <<wiretap, appVars, findVars, credVars, nSet, netVars, immediates, nFlush, caught, callVars>>

\* An http() that creates and caches the instance before it validates.
ImmediateSendCachesOnError ==
  IF HttpOk
  THEN /\ axiosInstance' = TRUE
       /\ dispatchSeq' = dispatchSeq + 1
       /\ inflight' = inflight \cup
            {[seq |-> dispatchSeq + 1, item |-> 0, imm |-> Len(immediates) + 1,
              hdr |-> Recorded(RequestCredentials)]}
       /\ immediates' = Append(immediates,
            [state |-> "sent", req |-> dispatchSeq + 1, error |-> "none"])
  ELSE /\ immediates' = Append(immediates,
            [state |-> "rejected", req |-> 0, error |-> ValidateConfig])
       /\ axiosInstance' = TRUE
       /\ UNCHANGED <<inflight, dispatchSeq>>

\* pulse.create(reqdata) for an immediate push: http() throws the
\* configuration error, or the request is initiated.
ImmediateSend ==
  IF HttpOk
  THEN /\ axiosInstance' = TRUE
       /\ dispatchSeq' = dispatchSeq + 1
       /\ inflight' = inflight \cup
            {[seq |-> dispatchSeq + 1, item |-> 0, imm |-> Len(immediates) + 1,
              hdr |-> Recorded(RequestCredentials)]}
       /\ immediates' = Append(immediates,
            [state |-> "sent", req |-> dispatchSeq + 1, error |-> "none"])
  ELSE /\ immediates' = Append(immediates,
            [state |-> "rejected", req |-> 0, error |-> ValidateConfig])
       /\ UNCHANGED netVars

\* An immediate push that clears the pending quiet timer before it returns.
PushImmediateClearsTimer ==
  /\ Len(immediates) < MaxImmediate
  /\ ImmediateSend
  /\ timers' = ClearTimeout(timers, pushTimeout)
  /\ pushTimeout' = NullHandle
  /\ UNCHANGED <<wiretap, appVars, findVars, credVars, nSet, queue, maxAgeTimeout, nextTimer, items, nFlush,
                 lastFlush, caught, clockVars, callVars>>

\* push(reqdata, {immediately: true}): pulse.create(reqdata) at call time.
PushImmediate ==
  /\ Len(immediates) < MaxImmediate
  /\ ImmediateSend
  /\ UNCHANGED <<wiretap, appVars, findVars, credVars, nSet, queueVars, items, nFlush, lastFlush, caught, clockVars,
                 callVars>>

\* ----------------------------------------------------------- processQueue
\* Requests initiated from the newest item to the oldest.
DispatchOrderReversed(snapshot) ==
  [k \in 1..Len(snapshot) |-> snapshot[Len(snapshot) + 1 - k].id]

\* The order in which snapshot.map initiates the requests: array order.
DispatchOrder(snapshot) == [k \in 1..Len(snapshot) |-> snapshot[k].id]

PosIn(order, id) == CHOOSE k \in 1..Len(order) : order[k] = id

\* A mapped callback whose catch rejects the item and throws the error on.
MapItemRethrow(ok) ==
  [fn |-> IF ok THEN "resolve" ELSE "reject", rethrow |-> ~ok]

\* The mapped callback of one snapshot item, given whether its own
\* pulse.create succeeded: the settlement function it calls, and whether
\* the promise it returns to Promise.all rejects (the inner catch swallows
\* the error, so it never does).
MapItem(ok) ==
  [fn |-> IF ok THEN "resolve" ELSE "reject", rethrow |-> FALSE]

\* A flush that initiates no request for the last item of the snapshot.
FlushRequestsSkipLast(snapshot) ==
  IF HttpOk
  THEN {[seq |-> dispatchSeq + PosIn(DispatchOrder(snapshot), id), item |-> id,
         imm |-> 0, hdr |-> Recorded(RequestCredentials)] : id \in Ids(snapshot) \ {snapshot[Len(snapshot)].id}}
  ELSE {}

\* The requests one flush initiates: one per item, or none when http() throws.
FlushRequests(snapshot) ==
  IF HttpOk
  THEN {[seq |-> dispatchSeq + PosIn(DispatchOrder(snapshot), id), item |-> id,
         imm |-> 0, hdr |-> Recorded(RequestCredentials)] : id \in Ids(snapshot)}
  ELSE {}

\* The outer catch of processQueue: rejects every item of the snapshot.
OuterCatch(its, f, src) ==
  [i \in DOMAIN its |->
     IF its[i].flush = f
     THEN [its[i] EXCEPT !.calls = Append(@, [fn |-> "reject", src |-> src])]
     ELSE its[i]]

\* A flush that clears no timer.
FlushTimersKept(tm) == tm

\* A flush that clears the quiet timer only.
FlushTimersQuietOnly(tm) ==
  IF pushTimeout # NullHandle THEN ClearTimeout(tm, pushTimeout) ELSE tm

\* The timers processQueue clears once it has taken the snapshot.
FlushTimers(tm) ==
  LET a == IF pushTimeout # NullHandle THEN ClearTimeout(tm, pushTimeout) ELSE tm
  IN  IF maxAgeTimeout # NullHandle THEN ClearTimeout(a, maxAgeTimeout) ELSE a

\* A processQueue that takes its snapshot and leaves the items in the queue.
FlushKeepsQueue(trigger, tm) ==
  LET f == nFlush + 1
      reqs == FlushRequests(queue)
      sent == [i \in DOMAIN items |->
                 IF i \in Ids(queue)
                 THEN IF HttpOk
                      THEN [items[i] EXCEPT !.state = "sent", !.flush = f,
                              !.req = dispatchSeq + PosIn(DispatchOrder(queue), i)]
                      ELSE [items[i] EXCEPT !.state = "done", !.flush = f,
                              !.outcome = "config",
                              !.calls = Append(@, [fn |-> MapItem(FALSE).fn,
                                                   src |-> 0])]
                 ELSE items[i]]
      thrown == ~HttpOk /\ MapItem(FALSE).rethrow
  IN  /\ queue' = queue
      /\ timers' = FlushTimers(tm)
      /\ pushTimeout' = NullHandle
      /\ maxAgeTimeout' = NullHandle
      /\ axiosInstance' = (axiosInstance \/ (HttpOk /\ Len(queue) > 0))
      /\ inflight' = inflight \cup reqs
      /\ dispatchSeq' = dispatchSeq + Cardinality(reqs)
      /\ items' = IF thrown THEN OuterCatch(sent, f, 0) ELSE sent
      /\ caught' = IF thrown THEN caught \cup {f} ELSE caught
      /\ nFlush' = f
      /\ lastFlush' =
           [trigger |-> trigger, size |-> Len(queue),
            requests |-> Cardinality(reqs),
            waited |-> sinceFirst, maxWait |-> batchMaxWait,
            quietPending |-> \E t \in tm : t.id = pushTimeout /\ t.left > 0,
            raced |-> /\ \E t \in timers : t.id = pushTimeout /\ t.left = 0
                      /\ \E t \in timers : t.id = maxAgeTimeout /\ t.left = 0,
            defaults |-> \A k \in 1..Len(queue) : queue[k].options = NoOptions]
      /\ UNCHANGED <<wiretap, appVars, findVars, credVars, nSet, nextTimer, immediates, clockVars>>

\* The body of processQueue() past its guard: swaps the queue out, clears
\* both timers and calls pulse.create for every snapshot item, in order; an
\* item whose call throws the configuration error is settled by its own
\* catch.
Flush(trigger, tm) ==
  LET f == nFlush + 1
      reqs == FlushRequests(queue)
      sent == [i \in DOMAIN items |->
                 IF i \in Ids(queue)
                 THEN IF HttpOk
                      THEN [items[i] EXCEPT !.state = "sent", !.flush = f,
                              !.req = dispatchSeq + PosIn(DispatchOrder(queue), i)]
                      ELSE [items[i] EXCEPT !.state = "done", !.flush = f,
                              !.outcome = "config",
                              !.calls = Append(@, [fn |-> MapItem(FALSE).fn,
                                                   src |-> 0])]
                 ELSE items[i]]
      thrown == ~HttpOk /\ MapItem(FALSE).rethrow
  IN  /\ queue' = <<>>
      /\ timers' = FlushTimers(tm)
      /\ pushTimeout' = NullHandle
      /\ maxAgeTimeout' = NullHandle
      /\ axiosInstance' = (axiosInstance \/ (HttpOk /\ Len(queue) > 0))
      /\ inflight' = inflight \cup reqs
      /\ dispatchSeq' = dispatchSeq + Cardinality(reqs)
      /\ items' = IF thrown THEN OuterCatch(sent, f, 0) ELSE sent
      /\ caught' = IF thrown THEN caught \cup {f} ELSE caught
      /\ nFlush' = f
      /\ lastFlush' =
           [trigger |-> trigger, size |-> Len(queue),
            requests |-> Cardinality(reqs),
            waited |-> sinceFirst, maxWait |-> batchMaxWait,
            quietPending |-> \E t \in tm : t.id = pushTimeout /\ t.left > 0,
            raced |-> /\ \E t \in timers : t.id = pushTimeout /\ t.left = 0
                      /\ \E t \in timers : t.id = maxAgeTimeout /\ t.left = 0,
            defaults |-> \A k \in 1..Len(queue) : queue[k].options = NoOptions]
      /\ UNCHANGED <<wiretap, appVars, findVars, credVars, nSet, nextTimer, immediates, clockVars>>

\* processQueue() without its guard on the empty queue.
ProcessQueueNoGuard(trigger, tm) ==
  /\ Flush(trigger, tm)
  /\ emptyFlushes' = IF Len(queue) = 0 THEN emptyFlushes + 1 ELSE emptyFlushes

\* processQueue(), entered with the pending timers tm.  On an empty queue it
\* returns at once; otherwise it flushes.
ProcessQueue(trigger, tm) ==
  IF Len(queue) = 0
  THEN /\ timers' = tm
       /\ emptyFlushes' = emptyFlushes + 1
       /\ UNCHANGED <<wiretap, appVars, findVars, credVars, nSet, queue, pushTimeout, maxAgeTimeout, nextTimer,
                      netVars, logVars, clockVars>>
  ELSE /\ Flush(trigger, tm)
       /\ UNCHANGED emptyFlushes

\* The quiet timer is due and its callback runs.
QuietTimerFire ==
  /\ \E t \in timers : t.kind = "quiet" /\ t.left = 0 /\ ProcessQueue("quiet", timers \ {t})
  /\ UNCHANGED nDirect

\* The max-age timer is due and its callback runs.
MaxTimerFire ==
  /\ \E t \in timers : t.kind = "max" /\ t.left = 0 /\ ProcessQueue("max", timers \ {t})
  /\ UNCHANGED nDirect

\* processQueue() entered by a call that is not a pending timer's callback.
DirectProcessQueue ==
  /\ nDirect < MaxDirect
  /\ nDirect' = nDirect + 1
  /\ ProcessQueue("direct", timers)

\* ------------------------------------------------------------- transport
\* A transport answer that is held back until every request of the item's
\* flush has been answered, and only then settles the items of that flush.
RespondAfterBatch(r, ok) ==
  /\ r \in inflight
  /\ inflight' = inflight \ {r}
  /\ IF r.imm # 0
     THEN /\ immediates' = [immediates EXCEPT ![r.imm].state =
                              IF ok THEN "resolved" ELSE "rejected"]
          /\ UNCHANGED <<items, caught>>
     ELSE LET f == items[r.item].flush
              own == [items EXCEPT ![r.item].outcome = IF ok THEN "ok" ELSE "err"]
              last == \A q \in inflight \ {r} : q.item = 0 \/ items[q.item].flush # f
              all == [i \in DOMAIN own |->
                        IF own[i].flush = f
                        THEN [own[i] EXCEPT !.state = "done",
                                !.calls = Append(@, [fn |-> MapItem(own[i].outcome = "ok").fn,
                                                     src |-> own[i].req])]
                        ELSE own[i]]
          IN  /\ items' = IF last THEN all ELSE own
              /\ UNCHANGED <<immediates, caught>>
  /\ UNCHANGED <<wiretap, appVars, findVars, credVars, nSet, queueVars, axiosInstance, dispatchSeq, nFlush, lastFlush,
                 clockVars, callVars>>

\* A transport whose first failure of a request makes the client send the
\* payload once more instead of settling.
RespondRetry(r, ok) ==
  /\ r \in inflight
  /\ IF ~ok /\ (\/ r.item # 0 /\ items[r.item].req = r.seq
                \/ r.imm # 0 /\ immediates[r.imm].req = r.seq)
     THEN /\ inflight' = (inflight \ {r}) \cup {[r EXCEPT !.seq = dispatchSeq + 1]}
          /\ dispatchSeq' = dispatchSeq + 1
          /\ UNCHANGED <<items, immediates, caught>>
     ELSE /\ inflight' = inflight \ {r}
          /\ dispatchSeq' = dispatchSeq
          /\ IF r.imm # 0
             THEN /\ immediates' = [immediates EXCEPT ![r.imm].state =
                                      IF ok THEN "resolved" ELSE "rejected"]
                  /\ UNCHANGED <<items, caught>>
             ELSE /\ items' = [items EXCEPT ![r.item].state = "done",
                                 ![r.item].outcome = IF ok THEN "ok" ELSE "err",
                                 ![r.item].calls =
                                    Append(@, [fn |-> MapItem(ok).fn, src |-> r.seq])]
                  /\ UNCHANGED <<immediates, caught>>
  /\ UNCHANGED <<wiretap, appVars, findVars, credVars, nSet, queueVars, axiosInstance, nFlush, lastFlush,
                 clockVars, callVars>>

\* The transport settles request r: ok is a response, otherwise an error.
Respond(r, ok) ==
  /\ r \in inflight
  /\ inflight' = inflight \ {r}
  /\ IF r.imm # 0
     THEN /\ immediates' = [immediates EXCEPT ![r.imm].state =
                              IF ok THEN "resolved" ELSE "rejected"]
          /\ UNCHANGED <<items, caught>>
     ELSE LET m == MapItem(ok)
              f == items[r.item].flush
              own == [items EXCEPT ![r.item].state = "done",
                        ![r.item].outcome = IF ok THEN "ok" ELSE "err",
                        ![r.item].calls = Append(@, [fn |-> m.fn, src |-> r.seq])]
              thrown == m.rethrow /\ f \notin caught
          IN  /\ items' = IF thrown THEN OuterCatch(own, f, r.seq) ELSE own
              /\ caught' = IF thrown THEN caught \cup {f} ELSE caught
              /\ UNCHANGED immediates
  /\ UNCHANGED <<wiretap, appVars, findVars, credVars, nSet, queueVars, axiosInstance, dispatchSeq, nFlush, lastFlush,
                 clockVars, callVars>>

\* ------------------------------------------------------------------ time
\* The steps time can take: a fixed step, or up to a pending timer's deadline.
TickValues == TickSteps \cup {t.left : t \in timers}

\* d ms pass; no pending timer is overrun.
Tick(d) ==
  /\ d > 0
  /\ \A t \in timers : t.left >= d
  /\ timers' = {[t EXCEPT !.left = @ - d] : t \in timers}
  /\ sinceLast' = Min(sinceLast + d, lastQuiet)
  /\ sinceFirst' = IF Len(queue) > 0 THEN Min(sinceFirst + d, ClockCap)
                   ELSE sinceFirst
  /\ <<timers, sinceLast, sinceFirst>>' # <<timers, sinceLast, sinceFirst>>
  /\ UNCHANGED <<wiretap, appVars, findVars, credVars, nSet, queue, pushTimeout, maxAgeTimeout, nextTimer, netVars,
                 logVars, lastQuiet, batchMaxWait, callVars>>

\* ------------------------------------------------------------------ Next
Next ==
  \/ \E opts \in PushOptionsSet : Push(opts)
  \/ PushImmediate
  \/ QuietTimerFire
  \/ MaxTimerFire
  \/ \E r \in inflight : \E ok \in BOOLEAN : Respond(r, ok)
  \/ \E d \in TickValues : Tick(d)
  \/ \E key \in ApiKeyValues : SetApiKey(key)
  \/ \E id \in TeamIdValues : SetTeamId(id)

Spec == Init /\ [][Next]_vars

\* Time passes, a due timer's callback runs, and the transport answers
\* every request.
FairSpec ==
  /\ Spec
  /\ WF_vars(\E d \in TickValues : Tick(d))
  /\ WF_vars(QuietTimerFire)
  /\ WF_vars(MaxTimerFire)
  /\ WF_vars(\E r \in inflight : \E ok \in BOOLEAN : Respond(r, ok))

\* ------------------------------------------------------------ pulse.find
\* A condition keyed by the bare operator.
MatchConditionNoPrefix(item) == [k \in {item.operator} |-> item.value]

\* { ['$' + operator]: value }
MatchCondition(item) == [k \in {"$" \o item.operator} |-> item.value]

\* A loop that merges the conditions given for one field.
RECURSIVE MatchOfListMerged(_, _)
MatchOfListMerged(list, acc) ==
  IF list = <<>> THEN acc
  ELSE LET item == Head(list)
           cond == [k \in {"$" \o item.operator} |-> item.value]
           old == IF item.field \in DOMAIN acc THEN acc[item.field] ELSE <<>>
       IN  MatchOfListMerged(Tail(list),
             [f \in DOMAIN acc \cup {item.field} |->
                IF f = item.field
                THEN [k \in DOMAIN old \cup DOMAIN cond |->
                        IF k \in DOMAIN cond THEN cond[k] ELSE old[k]]
                ELSE acc[f]])

\* The loop over a match list: query.match[item.field] is assigned the
\* item's condition, item after item, starting from acc.
RECURSIVE MatchOfList(_, _)
MatchOfList(list, acc) ==
  IF list = <<>> THEN acc
  ELSE LET item == Head(list)
       IN  MatchOfList(Tail(list),
             [f \in DOMAIN acc \cup {item.field} |->
                IF f = item.field THEN MatchCondition(item) ELSE acc[f]])

\* obj[key] of a JavaScript object: the value, or undefined (the empty set).
Prop(obj, key) == IF key \in DOMAIN obj THEN {obj[key]} ELSE {}

\* A string or undefined used as a property key or inside a template string.
KeyText(opt) == IF opt = {} THEN "undefined" ELSE CHOOSE v \in opt : TRUE

\* The match built in maxflowClient.ts from a match that is no list:
\* { [m.field]: { ['$' + m.operator]: m.value } }, as JSON.stringify writes
\* it (a key whose value is undefined is left out).
MatchOfObject(m) ==
  LET field == Prop(m, "field")
      operator == Prop(m, "operator")
      value == Prop(m, "value")
  IN  [f \in {KeyText(field)} |->
         IF value = {} THEN <<>>
         ELSE [k \in {"$" \o KeyText(operator)} |-> CHOOSE v \in value : TRUE]]

\* direction || (order === 'desc' ? -1 : 1), as maxflow.ts has it.
DirectionOr(item) ==
  IF item.direction \notin {{}, {0}} THEN CHOOSE v \in item.direction : TRUE
  ELSE IF item.order = {"desc"} THEN -1 ELSE 1

\* direction ?? (order === 'desc' ? -1 : 1), as maxflowClient.ts has it.
Direction(item) ==
  IF item.direction # {} THEN CHOOSE v \in item.direction : TRUE
  ELSE IF item.order = {"desc"} THEN -1 ELSE 1

\* data.orderBy.map(item => ({field, direction}))
OrderBy(list, impl) ==
  [k \in 1..Len(list) |->
     [field |-> list[k].field,
      direction |-> IF impl = "maxflow.ts" THEN DirectionOr(list[k])
                    ELSE Direction(list[k])]]

\* Keys set by truthiness: a page or pageSize of 0 is taken for an absent one.
QueryKeysTruthy(data) ==
  (IF data.match # {} \/ data.flatMatch # {} THEN {"match"} ELSE {})
    \cup (IF data.page \notin {{}, {0}} THEN {"page"} ELSE {})
    \cup (IF data.pageSize \notin {{}, {0}} THEN {"pageSize"} ELSE {})
    \cup (IF data.search # {} THEN {"search"} ELSE {})
    \cup (IF data.orderBy # {} THEN {"orderBy"} ELSE {})

\* The keys pulse.find sets in the query.
QueryKeys(data) ==
  (IF data.match # {} \/ data.flatMatch # {} THEN {"match"} ELSE {})
    \cup (IF data.page # {} THEN {"page"} ELSE {})
    \cup (IF data.pageSize # {} THEN {"pageSize"} ELSE {})
    \cup (IF data.search # {} THEN {"search"} ELSE {})
    \cup (IF data.orderBy # {} THEN {"orderBy"} ELSE {})

\* The query object pulse.find builds: a mapping from its keys to their
\* values; a key is set only when its part of the descriptor is given.
Query(data, impl) ==
  [k \in QueryKeys(data) |->
     CASE k = "match" ->
            IF data.match # {}
            THEN MatchOfList(CHOOSE l \in data.match : TRUE, <<>>)
            ELSE MatchOfObject(CHOOSE m \in data.flatMatch : TRUE)
       [] k = "page" -> CHOOSE v \in data.page : TRUE
       [] k = "pageSize" -> CHOOSE v \in data.pageSize : TRUE
       [] k = "search" -> CHOOSE v \in data.search : TRUE
       [] k = "orderBy" -> OrderBy(CHOOSE l \in data.orderBy : TRUE, impl)]

\* pulse.find(data): builds the query, then http() throws the configuration
\* error or the GET request is sent.  In maxflow.ts a match that is no list
\* is written into query.match before query.match exists, which throws.
Find ==
  /\ findCall = NoCall
  /\ IF findImpl = "maxflow.ts" /\ findData.flatMatch # {}
     THEN /\ findCall' = [query |-> <<>>, outcome |-> "TypeError"]
          /\ UNCHANGED axiosInstance
     ELSE /\ findCall' = [query |-> Query(findData, findImpl),
                          outcome |-> IF HttpOk THEN "sent" ELSE ValidateConfig]
          /\ axiosInstance' = (axiosInstance \/ HttpOk)
  /\ UNCHANGED <<findData, findImpl, credVars, nSet, queueVars, inflight, dispatchSeq,
                 logVars, clockVars, callVars, appVars, wiretap>>

\* A client on which pulse.find is called with any of the bounded inputs.
InitFind ==
  /\ \E c \in Configs :
       /\ apiKey = c.apiKey
       /\ teamId = c.teamId
       /\ apiSecret = c.apiSecret
  /\ baseURL = "https://maxflow.cloud"
  /\ axiosInstance = FALSE
  /\ queue = <<>>
  /\ pushTimeout = NullHandle
  /\ maxAgeTimeout = NullHandle
  /\ timers = {}
  /\ nextTimer = 1
  /\ inflight = {}
  /\ dispatchSeq = 0
  /\ items = <<>>
  /\ immediates = <<>>
  /\ nFlush = 0
  /\ lastFlush = NoFlush
  /\ caught = {}
  /\ sinceLast = 0
  /\ sinceFirst = ClockCap
  /\ lastQuiet = 0
  /\ batchMaxWait = 0
  /\ nSet = 0
  /\ nDirect = 0
  /\ emptyFlushes = 0
  /\ findData \in FindInputs
  /\ findCall = NoCall
  /\ findImpl \in FindImpls
  /\ applicationId = Null
  /\ instanceHeaders = <<>>
  /\ appCalls = <<>>
  /\ wiretap = FALSE

NextFind == Find

SpecFind == InitFind /\ [][NextFind]_vars

\* ------------------------------------- the client of src/src/maxflowClient.ts
\* validateConfig() of that client: the error it throws, or "ok".
AppValidateConfig ==
  IF Falsy(teamId) THEN "Team ID is not set"
  ELSE IF Falsy(applicationId) THEN "Application ID is not set"
  ELSE IF Falsy(apiKey) THEN "API Key is not set"
  ELSE IF Falsy(apiSecret) THEN "API Secret is not set"
  ELSE "ok"

\* An http(false) that hands out the cached instance when there is one.
PublicHeadersReused ==
  IF axiosInstance
  THEN [h \in DOMAIN instanceHeaders \cup {"x-max-team-id"} |->
          IF h = "x-max-team-id" THEN teamId ELSE instanceHeaders[h]]
  ELSE [h \in {"x-max-team-id"} |-> teamId]

\* http(false): the identity headers of the instance it creates.
PublicHeaders == [h \in {"x-max-team-id"} |-> teamId]

\* The identity headers of an instance after http() has set the
\* authentication headers on it.
AuthHeaders(base) ==
  [h \in DOMAIN base \cup AuthHeaderNames |->
     CASE h = "x-api-key" -> apiKey
       [] h = "x-max-team-id" -> teamId
       [] h = "x-api-secret" -> apiSecret
       [] h = "x-max-application-id" -> applicationId
       [] OTHER -> base[h]]

\* An authenticated operation (run, getExecutionStatus, pulse.*, the
\* pulse.push of an immediate or flushed push): http() validates only while
\* no instance is cached, sets the headers and the request is sent.
AuthCall ==
  /\ Len(appCalls) < MaxCalls
  /\ IF ~axiosInstance /\ AppValidateConfig # "ok"
     THEN /\ appCalls' = Append(appCalls,
               [kind |-> "auth", outcome |-> AppValidateConfig, headers |-> <<>>])
          /\ UNCHANGED <<axiosInstance, instanceHeaders>>
     ELSE LET hdrs == AuthHeaders(IF axiosInstance THEN instanceHeaders ELSE <<>>)
          IN  /\ axiosInstance' = TRUE
              /\ instanceHeaders' = hdrs
              /\ appCalls' = Append(appCalls,
                   [kind |-> "auth", outcome |-> "sent", headers |-> hdrs])
  /\ UNCHANGED <<credVars, applicationId, nSet, queueVars, inflight, dispatchSeq, logVars,
                 clockVars, callVars, findVars, wiretap>>

\* runPublic / getExecutionPublicStatus: http(false) creates an instance,
\* caches it, and the request is sent on it.
PublicCall ==
  /\ Len(appCalls) < MaxCalls
  /\ axiosInstance' = TRUE
  /\ instanceHeaders' = PublicHeaders
  /\ appCalls' = Append(appCalls,
       [kind |-> "public", outcome |-> "sent", headers |-> PublicHeaders])
  /\ UNCHANGED <<credVars, applicationId, nSet, queueVars, inflight, dispatchSeq, logVars,
                 clockVars, callVars, findVars, wiretap>>

\* setApiKey(key, secret) of that client.
AppSetApiKey(key, secret) ==
  /\ nSet < MaxSet
  /\ nSet' = nSet + 1
  /\ apiKey' = key
  /\ apiSecret' = secret
  /\ UNCHANGED <<teamId, baseURL, appVars, queueVars, netVars, logVars, clockVars, callVars,
                 findVars, wiretap>>

\* setApplicationId(id)
SetApplicationId(id) ==
  /\ nSet < MaxSet
  /\ nSet' = nSet + 1
  /\ applicationId' = id
  /\ UNCHANGED <<credVars, instanceHeaders, appCalls, queueVars, netVars, logVars,
                 clockVars, callVars, findVars, wiretap>>

\* That client after construction with any of the configurations.
InitApp ==
  /\ \E c \in AppConfigs :
       /\ apiKey = c.apiKey
       /\ teamId = c.teamId
       /\ apiSecret = c.apiSecret
       /\ applicationId = c.applicationId
  /\ baseURL = "https://app.gomaxflow.ai"
  /\ axiosInstance = FALSE
  /\ instanceHeaders = <<>>
  /\ appCalls = <<>>
  /\ wiretap = FALSE
  /\ queue = <<>>
  /\ pushTimeout = NullHandle
  /\ maxAgeTimeout = NullHandle
  /\ timers = {}
  /\ nextTimer = 1
  /\ inflight = {}
  /\ dispatchSeq = 0
  /\ items = <<>>
  /\ immediates = <<>>
  /\ nFlush = 0
  /\ lastFlush = NoFlush
  /\ caught = {}
  /\ sinceLast = 0
  /\ sinceFirst = ClockCap
  /\ lastQuiet = 0
  /\ batchMaxWait = 0
  /\ nSet = 0
  /\ nDirect = 0
  /\ emptyFlushes = 0
  /\ findData = NoFind
  /\ findCall = NoCall
  /\ findImpl = "maxflowClient.ts"

NextApp ==
  \/ AuthCall
  \/ PublicCall
  \/ \E kv \in AppKeyValues : AppSetApiKey(kv[1], kv[2])
  \/ \E id \in TeamIdValues : SetTeamId(id)
  \/ \E id \in AppIdValues : SetApplicationId(id)

SpecApp == InitApp /\ [][NextApp]_vars

\* ------------------------------------------ the client with a wiretap
\* The client after construction, with what every request carries recorded
\* on the request, and what was current at enqueue time on each item.
InitCred ==
  /\ \E c \in Configs :
       /\ apiKey = c.apiKey
       /\ teamId = c.teamId
       /\ apiSecret = c.apiSecret
  /\ baseURL = "https://maxflow.cloud"
  /\ axiosInstance = FALSE
  /\ queue = <<>>
  /\ pushTimeout = NullHandle
  /\ maxAgeTimeout = NullHandle
  /\ timers = {}
  /\ nextTimer = 1
  /\ inflight = {}
  /\ dispatchSeq = 0
  /\ items = <<>>
  /\ immediates = <<>>
  /\ nFlush = 0
  /\ lastFlush = NoFlush
  /\ caught = {}
  /\ sinceLast = 0
  /\ sinceFirst = ClockCap
  /\ lastQuiet = 0
  /\ batchMaxWait = 0
  /\ nSet = 0
  /\ nDirect = 0
  /\ emptyFlushes = 0
  /\ findData = NoFind
  /\ findCall = NoCall
  /\ findImpl = "maxflowClient.ts"
  /\ applicationId = Null
  /\ instanceHeaders = <<>>
  /\ appCalls = <<>>
  /\ wiretap = TRUE

\* The operations of the client, setBaseURL included.
NextCred == Next \/ \E url \in BaseURLValues : SetBaseURL(url)

SpecCred == InitCred /\ [][NextCred]_vars

\* The client when processQueue may also be entered outside a timer callback.
NextDirect == Next \/ DirectProcessQueue

SpecDirect == Init /\ [][NextDirect]_vars

\* ================================================================ claims

\* C1: no queued item is settled more than once, and none is both resolved
\* and rejected: processQueue calls resolve or reject at most once per item,
\* also for a batch whose two timers were due together.
C1_SettledAtMostOnce ==
  \A i \in DOMAIN items : Len(items[i].calls) <= 1

\* A batch whose quiet timer and max-age timer were due together has been
\* flushed, and its items are settled, one resolved and one rejected.
C1_Witness ==
  /\ lastFlush.raced
  /\ lastFlush.size >= 2
  /\ \E i, j \in DOMAIN items :
       /\ items[i].flush = nFlush /\ items[j].flush = nFlush
       /\ items[i].calls = <<[fn |-> "resolve", src |-> items[i].req]>>
       /\ items[j].calls = <<[fn |-> "reject", src |-> items[j].req]>>

\* C3: in a fan-out flush every settlement call made on an item carries the
\* outcome of that item's own request: resolve for its own response, reject
\* for its own error (or its own configuration error), never a sibling's.
C3_OwnOutcomeOnly ==
  \A i \in DOMAIN items :
    \A k \in 1..Len(items[i].calls) :
      LET c == items[i].calls[k]
      IN  /\ c.src = items[i].req
          /\ c.fn = "resolve" <=> items[i].outcome = "ok"
          /\ c.fn = "reject" <=> items[i].outcome \in {"err", "config"}

\* Two items of one flush: the request of one failed and it is rejected,
\* the request of the other succeeded and it is resolved.
C3_Witness ==
  \E i, j \in DOMAIN items :
    /\ i # j
    /\ items[i].flush = items[j].flush
    /\ items[i].req > 0 /\ items[j].req > 0
    /\ items[i].outcome = "err" /\ items[i].calls[1].fn = "reject"
    /\ items[j].outcome = "ok" /\ items[j].calls[1].fn = "resolve"

\* C8: a flush whose snapshot holds N >= 2 items makes fewer than N
\* transport create requests.
C8_FewerRequestsThanItems ==
  lastFlush.size >= 2 => lastFlush.requests < lastFlush.size

\* C10: requests are initiated in enqueue order, within a flush and across
\* flushes: an item enqueued earlier never has its request initiated after
\* that of an item enqueued later, is never flushed later, and when a later
\* flush has initiated a request, every item of every earlier flush has had
\* its own pulse.create call made (request initiated or configuration error).
C10_DispatchInEnqueueOrder ==
  \A i, j \in DOMAIN items :
    i < j =>
      /\ (items[i].req > 0 /\ items[j].req > 0) => items[i].req < items[j].req
      /\ items[j].flush > 0 => (items[i].flush > 0 /\ items[i].flush <= items[j].flush)
      /\ items[j].req > 0 => (items[i].req > 0 \/ items[i].outcome = "config")

\* Two items of one flush, their requests initiated one after the other
\* behind the request of an earlier immediate push.
C10_Witness ==
  \E i, j \in DOMAIN items :
    /\ i < j
    /\ items[i].flush = items[j].flush
    /\ items[i].req > 1
    /\ items[j].req = items[i].req + 1

\* C2: every item enqueued by a non-immediate push is eventually settled,
\* given that time passes, due timers fire and the transport answers: again
\* and again every item pushed so far has been settled (a settlement is
\* never undone, so an item left unsettled would falsify this for ever).
C2_EventuallySettled ==
  []<>(\A i \in DOMAIN items : Len(items[i].calls) >= 1)

\* The first item is settled although a further push arrived and restarted
\* the quiet timer while it was queued.
C2_Witness ==
  /\ Len(items) >= 2
  /\ items[1].flush = items[2].flush
  /\ lastFlush.trigger = "quiet"
  /\ lastFlush.waited > lastQuiet
  /\ \A i \in DOMAIN items : Len(items[i].calls) = 1

\* C4: a queued batch never waits longer than the max wait chosen by its
\* first push: while the queue is non-empty no more than that has elapsed
\* since the first item was enqueued, a flush happens no later than that,
\* and a flush takes every queued item (no item stays queued outside the
\* queue, and each item of the flush has had its pulse.create call).
C4_StarvationBounded ==
  /\ Len(queue) > 0 => sinceFirst <= batchMaxWait
  /\ lastFlush.trigger # "none" => lastFlush.waited <= lastFlush.maxWait
  /\ \A i \in DOMAIN items : items[i].state = "queued" <=> i \in Ids(queue)
  /\ lastFlush.trigger # "none" =>
       Cardinality({i \in DOMAIN items : items[i].flush = nFlush}) = lastFlush.size
  /\ \A i \in DOMAIN items :
       items[i].flush > 0 => (items[i].req > 0 \/ items[i].outcome = "config")

\* The max-age timer flushed a batch of several items exactly at the max
\* wait while the quiet timer, restarted by a later push, was still pending.
C4_Witness ==
  /\ lastFlush.trigger = "max"
  /\ lastFlush.quietPending
  /\ lastFlush.size >= 2
  /\ lastFlush.waited = lastFlush.maxWait
  /\ lastFlush.waited > 0
  /\ lastFlush.requests = lastFlush.size

\* A non-immediate push is the step that adds an item.
PushStep == Len(items') = Len(items) + 1

\* A non-empty flush takes every queued item in one flush.
FlushCoversQueue ==
  (Len(queue) > 0 /\ Len(queue') = 0) =>
     /\ nFlush' = nFlush + 1
     /\ \A i \in Ids(queue) : items'[i].flush = nFlush'

\* C5 as stated: a push that follows the previous push by less than the
\* quiet period finds the previous item still queued, so one flush covers
\* both.
C5_OneFlushWithinQuiet ==
  [][(PushStep /\ Len(items) >= 1 /\ sinceLast < lastQuiet)
       => items[Len(items)].state = "queued"]_vars

QuietFlushStep == nFlush' = nFlush + 1 /\ lastFlush'.trigger = "quiet"

\* C5 amended: a push that follows the previous push by less than the quiet
\* period, and the first push of that batch by less than the batch's max
\* wait, joins the previous item's batch; the quiet timer flushes only once
\* the quiet period of the latest push has elapsed; a flush covers the whole
\* queue in one flush, and no item is settled twice.
C5_OneFlushWithinQuietAndMaxWait ==
  /\ [][(PushStep /\ Len(items) >= 1 /\ sinceLast < lastQuiet
           /\ sinceFirst < batchMaxWait)
          => items[Len(items)].state = "queued"]_vars
  /\ [][QuietFlushStep => sinceLast = lastQuiet]_vars
  /\ [][FlushCoversQueue]_vars
  /\ [](\A i \in DOMAIN items : Len(items[i].calls) <= 1)

\* The quiet timer flushed several items pushed over a span longer than the
\* quiet period of the last push, and each is settled once.
C5_Witness ==
  /\ lastFlush.trigger = "quiet"
  /\ lastFlush.size >= 2
  /\ lastFlush.waited > lastQuiet
  /\ lastFlush.waited < lastFlush.maxWait
  /\ nFlush = 1
  /\ Len(queue) = 0
  /\ \A i \in DOMAIN items : items[i].flush = 1 /\ Len(items[i].calls) = 1

\* The step is an immediate push.
ImmediateStep == Len(immediates') = Len(immediates) + 1

\* The step settles the request of an immediate push.
ImmediateResponse == \E r \in inflight \ inflight' : r.imm # 0

\* C6: an immediate push leaves the queue, both timer handles, the pending
\* timers with their time left and every queued item as they were, and
\* initiates its one request in the same step (none when http() throws the
\* configuration error); the response or error of that request changes
\* nothing but the immediate call's own record.
C6_ImmediateFrame ==
  [][/\ ImmediateStep =>
          /\ UNCHANGED <<queue, pushTimeout, maxAgeTimeout, timers, nextTimer, items>>
          /\ IF HttpOk
             THEN /\ dispatchSeq' = dispatchSeq + 1
                  /\ inflight' \ inflight =
                       {[seq |-> dispatchSeq', item |-> 0, imm |-> Len(immediates'),
                         hdr |-> Recorded(RequestCredentials)]}
             ELSE /\ UNCHANGED <<inflight, dispatchSeq>>
                  /\ immediates'[Len(immediates')].state = "rejected"
     /\ ImmediateResponse =>
          UNCHANGED <<credVars, queueVars, axiosInstance, dispatchSeq, items, nFlush,
                      lastFlush, clockVars>>]_vars

\* An immediate request has been answered while a batch is queued with both
\* timers pending.
C6_Witness ==
  /\ \E k \in DOMAIN immediates :
       immediates[k].req > 0 /\ immediates[k].state \in {"resolved", "rejected"}
  /\ Len(queue) >= 1
  /\ \E t \in timers : t.id = pushTimeout
  /\ \E t \in timers : t.id = maxAgeTimeout

\* A required credential is missing before the first network call: no
\* transport instance exists yet and validateConfig would throw.
ConfigMissing == ~axiosInstance /\ ValidateConfig # "ok"

\* C7 as stated: a non-immediate push on a client with a missing credential
\* and no transport instance starts no timer and issues no request.
C7_NoTimerOnConfigError ==
  [][(PushStep /\ ConfigMissing)
       => (timers' = timers /\ pushTimeout' = pushTimeout /\ inflight' = inflight)]_vars

\* C7 amended: while a credential is missing and no transport instance
\* exists, no step issues a transport request: an immediate push is rejected
\* in the call with the configuration error and a flush rejects every item
\* of its snapshot with it; a non-immediate push validates nothing and
\* starts its quiet timer all the same.
C7_ConfigErrorBeforeNetwork ==
  /\ [](~axiosInstance => (dispatchSeq = 0 /\ inflight = {}))
  /\ [][ConfigMissing =>
          /\ inflight' = inflight /\ dispatchSeq' = dispatchSeq /\ ~axiosInstance'
          /\ ImmediateStep =>
               /\ immediates'[Len(immediates')].state = "rejected"
               /\ immediates'[Len(immediates')].error = ValidateConfig
          /\ (Len(queue) > 0 /\ Len(queue') = 0) =>
               \A i \in Ids(queue) :
                 items'[i].calls = <<[fn |-> "reject", src |-> 0]>>
          /\ PushStep => \E t \in timers' : t.id = pushTimeout' /\ t.kind = "quiet"]_vars

\* Items pushed on a client with a missing credential were rejected by the
\* flush with the configuration error, and no request was ever made.
C7_Witness ==
  /\ dispatchSeq = 0
  /\ ~axiosInstance
  /\ \E i \in DOMAIN items : items[i].outcome = "config"
  /\ \E k \in DOMAIN immediates : immediates[k].state = "rejected"

\* The step is a processQueue call that found the queue empty.
EmptyFlushStep == emptyFlushes' = emptyFlushes + 1

\* C9: processQueue entered on an empty queue changes nothing: no request,
\* no settlement, no flush, queue and both timer handles as before; and every
\* processQueue call on an empty queue is such a step.  No item gets two
\* requests or two settlements.
C9_EmptyFlushNoOp ==
  /\ [][EmptyFlushStep =>
          UNCHANGED <<credVars, queueVars, netVars, logVars, clockVars>>]_vars
  /\ [][(nDirect' = nDirect + 1 /\ Len(queue) = 0) => EmptyFlushStep]_vars
  /\ [](\A i \in DOMAIN items :
          /\ Len(items[i].calls) <= 1
          /\ Cardinality({r \in inflight : r.item = i}) <= 1
          /\ \A r \in inflight : r.item = i => r.seq = items[i].req)

\* processQueue was entered again on the empty queue after a flush whose
\* items are in flight or settled.
C9_Witness ==
  /\ emptyFlushes >= 1
  /\ nFlush >= 1
  /\ Len(queue) = 0
  /\ \E i \in DOMAIN items : Len(items[i].calls) = 1

\* The pending max-age timers among tm.
MaxTimers(tm) == {t \in tm : t.kind = "max"}

\* C11: the max-age timer is started only by the push that takes the queue
\* from empty to one item, due after that push's debounce_max_wait if given
\* and after MAX_QUEUE_TIME otherwise; a push onto a non-empty queue leaves
\* the max-age handle and the pending max-age timer with its time left as
\* they were, whatever its own debounce_max_wait; no other step starts one.
C11_MaxTimerOnlyByFirstPush ==
  [][/\ (PushStep /\ Len(queue) = 0) =>
          /\ maxAgeTimeout' \notin {t.id : t \in timers}
          /\ MaxTimers(timers') =
               {[id |-> maxAgeTimeout', kind |-> "max",
                 left |-> Nullish(queue'[1].options.debounce_max_wait,
                                  MAX_QUEUE_TIME)]}
     /\ (PushStep /\ Len(queue) > 0) =>
          /\ maxAgeTimeout' = maxAgeTimeout
          /\ MaxTimers(timers') = MaxTimers(timers)
     /\ ~PushStep =>
          {t.id : t \in MaxTimers(timers')} \subseteq {t.id : t \in MaxTimers(timers)}]_vars

\* A second push with its own debounce_max_wait sits in the queue behind a
\* first push without one, and the max-age timer still has more time left
\* than the second push asked for.
C11_Witness ==
  /\ Len(queue) = 2
  /\ queue[1].options.debounce_max_wait = {}
  /\ queue[2].options.debounce_max_wait # {}
  /\ \E t \in timers :
       /\ t.id = maxAgeTimeout
       /\ t.left > Nullish(queue[2].options.debounce_max_wait, MAX_QUEUE_TIME)
       /\ t.left < MAX_QUEUE_TIME

\* The pending quiet timers among tm.
QuietTimers(tm) == {t \in tm : t.kind = "quiet"}

\* C12: every non-immediate push cancels the pending quiet timer and starts
\* a new one, due after that push's debounce if given (0 included) and after
\* QUEUE_DELAY otherwise; so a pending quiet timer is always the one of the
\* latest push and is due when that push's delay has elapsed since it, and
\* the quiet timer flushes only when no push has arrived for that long.
C12_QuietTimerOfLatestPush ==
  /\ [][PushStep =>
          /\ pushTimeout' \notin {t.id : t \in timers}
          /\ QuietTimers(timers') =
               {[id |-> pushTimeout', kind |-> "quiet",
                 left |-> Nullish(queue'[Len(queue')].options.debounce,
                                  QUEUE_DELAY)]}]_vars
  /\ [](\A t \in QuietTimers(timers) :
          t.id = pushTimeout /\ t.left + sinceLast = lastQuiet)
  /\ [][QuietFlushStep =>
          /\ sinceLast = lastQuiet
          /\ lastQuiet = Nullish(queue[Len(queue)].options.debounce, QUEUE_DELAY)]_vars

\* The quiet timer flushed two items 200 ms after the first push: the second
\* push came with debounce 0 and replaced the first push's later deadline.
C12_Witness ==
  /\ lastFlush.trigger = "quiet"
  /\ lastFlush.size = 2
  /\ lastFlush.waited = 200
  /\ lastFlush.maxWait = MAX_QUEUE_TIME
  /\ lastQuiet = 0

\* C13: a push onto the empty queue with debounce_max_wait 0 starts a
\* max-age timer that is due at once (0 is neither replaced by
\* MAX_QUEUE_TIME nor taken for no timer); while that batch is queued the
\* timer stays due and no time passes, and the batch is flushed without any
\* wait, the quiet period of its pushes notwithstanding.
C13_ZeroMaxWaitFlushesAtOnce ==
  /\ [][(PushStep /\ Len(queue) = 0 /\ queue'[1].options.debounce_max_wait = {0}) =>
          \E t \in timers' : t.id = maxAgeTimeout' /\ t.kind = "max" /\ t.left = 0]_vars
  /\ []((Len(queue) > 0 /\ queue[1].options.debounce_max_wait = {0}) =>
          /\ sinceFirst = 0
          /\ \E t \in timers : t.id = maxAgeTimeout /\ t.kind = "max" /\ t.left = 0)
  /\ [][(Len(queue) > 0 /\ queue[1].options.debounce_max_wait = {0}
          /\ nFlush' = nFlush + 1) =>
          /\ lastFlush'.waited = 0
          /\ lastFlush'.size = Len(queue)
          /\ Len(queue') = 0]_vars

\* The max-age timer of a batch started with debounce_max_wait 0 flushed it
\* with no wait, while the quiet timer of QUEUE_DELAY was still pending.
C13_Witness ==
  /\ lastFlush.trigger = "max"
  /\ lastFlush.maxWait = 0
  /\ lastFlush.waited = 0
  /\ lastFlush.quietPending
  /\ lastQuiet = QUEUE_DELAY
  /\ lastFlush.size >= 1

\* The queue holds a batch whose pushes all came without options.
DefaultBatch ==
  Len(queue) > 0 /\ \A k \in 1..Len(queue) : queue[k].options = NoOptions

\* C14: for a batch pushed without options the quiet timer is due 360 ms
\* after the latest push and the max-age timer 1000 ms after the first; the
\* batch is flushed only when one of the two is reached, and when the span
\* of the pushes plus 360 ms is below 1000 ms it is the quiet timer that
\* flushes it, 360 ms after the last push, taking all its items in one
\* flush whose requests are initiated in insertion order; no item is
\* settled twice.
C14_DefaultBurstOneQuietFlush ==
  /\ [](DefaultBatch =>
          /\ \E t \in timers : t.id = pushTimeout /\ t.left = 360 - sinceLast
          /\ \E t \in timers : t.id = maxAgeTimeout /\ t.left = 1000 - sinceFirst)
  /\ [][(DefaultBatch /\ nFlush' = nFlush + 1) =>
          /\ sinceLast = 360 \/ sinceFirst = 1000
          /\ (sinceFirst - sinceLast) + 360 < 1000 =>
               /\ lastFlush'.trigger = "quiet"
               /\ sinceLast = 360
               /\ lastFlush'.size = Len(queue)
               /\ Len(queue') = 0
               /\ \A k \in 1..Len(queue) :
                    /\ items'[queue[k].id].flush = nFlush'
                    /\ HttpOk => items'[queue[k].id].req = dispatchSeq + k]_vars
  /\ [](\A i \in DOMAIN items : Len(items[i].calls) <= 1)

\* Two pushes without options 200 ms apart were flushed together by the
\* quiet timer 560 ms after the first, their requests went out in insertion
\* order and each item is settled once.
C14_Witness ==
  /\ lastFlush.defaults
  /\ lastFlush.trigger = "quiet"
  /\ lastFlush.size = 2
  /\ lastFlush.waited = 560
  /\ nFlush = 1
  /\ items[1].req > 0 /\ items[2].req = items[1].req + 1
  /\ \A i \in DOMAIN items : items[i].flush = 1 /\ Len(items[i].calls) = 1

\* C15 as stated: at any time exactly one quiet timer and exactly one
\* max-age timer are pending.
C15_ExactlyOneOfEachTimer ==
  /\ Cardinality(QuietTimers(timers)) = 1
  /\ Cardinality(MaxTimers(timers)) = 1

\* C15 amended: at any time at most one quiet timer and at most one max-age
\* timer are pending; while the queue holds an item there is exactly one of
\* each, the ones the two handle fields name, and while the queue is empty
\* there is none and both handles are null.
C15_AtMostOneOfEachTimer ==
  /\ Cardinality(QuietTimers(timers)) <= 1
  /\ Cardinality(MaxTimers(timers)) <= 1
  /\ Len(queue) > 0 =>
       /\ {t.id : t \in QuietTimers(timers)} = {pushTimeout}
       /\ {t.id : t \in MaxTimers(timers)} = {maxAgeTimeout}
       /\ pushTimeout # NullHandle /\ maxAgeTimeout # NullHandle
  /\ Len(queue) = 0 =>
       /\ timers = {}
       /\ pushTimeout = NullHandle /\ maxAgeTimeout = NullHandle

\* A second batch is queued with its own two timers while requests of the
\* first batch's flush are still in flight.
C15_Witness ==
  /\ nFlush >= 1
  /\ Len(queue) >= 1
  /\ \E r \in inflight : r.item # 0
  /\ Cardinality(QuietTimers(timers)) = 1
  /\ Cardinality(MaxTimers(timers)) = 1

\* C16: an item whose request was initiated is unsettled exactly as long as
\* its own request is outstanding: the step in which the transport answers
\* its request settles it, whatever requests of the same flush are still
\* outstanding, and changes no other item.
C16_SettledOnOwnResponse ==
  /\ [](\A i \in DOMAIN items :
          items[i].req > 0 =>
            (Len(items[i].calls) = 0 <=> \E r \in inflight : r.item = i))
  /\ [][\A r \in inflight \ inflight' :
          r.item # 0 =>
            /\ Len(items[r.item].calls) = 0
            /\ Len(items'[r.item].calls) = 1
            /\ \A j \in DOMAIN items : j # r.item => items'[j] = items[j]]_vars

\* One item of a flush of two is settled while its sibling's request is
\* still outstanding and the sibling is unsettled.
C16_Witness ==
  \E i, j \in DOMAIN items :
    /\ i # j
    /\ items[i].flush = items[j].flush
    /\ Len(items[i].calls) = 1 /\ items[i].req > 0
    /\ Len(items[j].calls) = 0
    /\ \E r \in inflight : r.item = j

\* The step is a non-empty flush.
FlushStep == nFlush' = nFlush + 1

\* C17: a non-empty flush is one step that takes the whole queue as its
\* snapshot, leaves the queue empty, leaves no timer pending and both
\* handles null, and makes the pulse.create call of every snapshot item (one
\* new request per item, none when http() throws the configuration error);
\* a push made while requests of a flush are in flight joins no flush, adds
\* no request, becomes the only item of a new batch with a quiet timer and a
\* max-age timer of its own, and gets its request only from a later flush.
C17_FlushAtomicSnapshot ==
  /\ [][FlushStep =>
          /\ Len(queue) > 0
          /\ queue' = <<>>
          /\ timers' = {}
          /\ pushTimeout' = NullHandle /\ maxAgeTimeout' = NullHandle
          /\ \A i \in Ids(queue) : items'[i].flush = nFlush'
          /\ \A i \in DOMAIN items : i \notin Ids(queue) => items'[i] = items[i]
          /\ {r.item : r \in inflight' \ inflight} = IF HttpOk THEN Ids(queue) ELSE {}
          /\ inflight \subseteq inflight']_vars
  /\ [][(PushStep /\ Len(queue) = 0) =>
          /\ inflight' = inflight
          /\ \A i \in DOMAIN items : items'[i] = items[i]
          /\ items'[Len(items')].flush = 0 /\ items'[Len(items')].req = 0
          /\ Ids(queue') = {Len(items')}
          /\ timers' =
               {[id |-> pushTimeout', kind |-> "quiet",
                 left |-> Nullish(queue'[1].options.debounce, QUEUE_DELAY)],
                [id |-> maxAgeTimeout', kind |-> "max",
                 left |-> Nullish(queue'[1].options.debounce_max_wait, MAX_QUEUE_TIME)]}
          /\ pushTimeout' >= nextTimer /\ maxAgeTimeout' >= nextTimer
          /\ pushTimeout' # maxAgeTimeout']_vars
  /\ [](\A i \in DOMAIN items :
          /\ i \in Ids(queue) => (items[i].flush = 0 /\ items[i].req = 0)
          /\ \A j \in DOMAIN items :
               (i < j /\ items[i].flush > 0 /\ items[j].flush > items[i].flush
                  /\ items[i].req > 0 /\ items[j].req > 0)
               => items[j].req > items[i].req)
  /\ [](nextTimer > pushTimeout /\ nextTimer > maxAgeTimeout
          /\ \A t \in timers : t.id < nextTimer)

\* The second item was pushed after the flush of the first and flushed by a
\* later flush of its own, all while the first item's request is in flight.
C17_Witness ==
  /\ nFlush = 2
  /\ Len(items) >= 2
  /\ items[1].flush = 1 /\ items[2].flush = 2
  /\ \E r \in inflight : r.item = 1
  /\ \E r \in inflight : r.item = 2

\* The step is a transport error answering a request.
FailureStep ==
  \E r \in inflight \ inflight' :
    \/ r.item # 0 /\ items'[r.item].outcome = "err"
    \/ r.imm # 0 /\ immediates'[r.imm].state = "rejected"

\* C18: no payload is ever sent twice: the requests initiated so far are
\* one for each queued item and each immediate push that has a request, and
\* no two outstanding requests belong to the same push; a transport error
\* initiates no request, puts nothing on the queue, and leaves the push
\* rejected, the queued item with its one reject call.
C18_NoRetry ==
  /\ [](dispatchSeq = Cardinality({i \in DOMAIN items : items[i].req > 0})
                      + Cardinality({k \in DOMAIN immediates : immediates[k].req > 0}))
  /\ [](\A r, q \in inflight : (r.item = q.item /\ r.imm = q.imm) => r = q)
  /\ [](\A r \in inflight :
          /\ r.item # 0 => items[r.item].req = r.seq
          /\ r.imm # 0 => immediates[r.imm].req = r.seq)
  /\ [][FailureStep =>
          /\ dispatchSeq' = dispatchSeq
          /\ inflight' \subseteq inflight
          /\ queue' = queue /\ timers' = timers]_vars
  /\ [](\A i \in DOMAIN items :
          items[i].outcome = "err" =>
            /\ items[i].calls = <<[fn |-> "reject", src |-> items[i].req]>>
            /\ i \notin Ids(queue)
            /\ ~\E r \in inflight : r.item = i)

\* A queued item and an immediate push both had their one request fail:
\* both are rejected, nothing is queued or in flight, and two requests were
\* made for the two payloads that got one.
C18_Witness ==
  /\ \E i \in DOMAIN items : items[i].outcome = "err"
  /\ \E k \in DOMAIN immediates : immediates[k].req > 0 /\ immediates[k].state = "rejected"
  /\ inflight = {}
  /\ Len(queue) = 0
  /\ dispatchSeq = 2

\* The key an operator is expected under: '$' followed by the operator.
DollarKey(op) ==
  CASE op = "eq" -> "$eq"
    [] op = "gt" -> "$gt"
    [] op = "bogus" -> "$bogus"

\* The condition expected for a triple.
ExpectedCondition(item) == [k \in {DollarKey(item.operator)} |-> item.value]

\* pulse.find has been called with a match list.
FoundWithList == findCall # NoCall /\ findData.match # {}

\* The match list given.
GivenList == CHOOSE l \in findData.match : TRUE

\* C19: for a match given as a list the query's match mapping has exactly
\* the fields that occur in the list, every entry is { '$' + operator :
\* value } of a triple naming that field, a triple whose field no other
\* triple names has its entry, and no operator is rejected or altered; for
\* [{status, eq, active}] the match is {status: {$eq: active}}.
C19_MatchListTransform ==
  FoundWithList =>
    LET out == findCall.query["match"]
    IN  /\ "match" \in DOMAIN findCall.query
        /\ DOMAIN out = {GivenList[k].field : k \in 1..Len(GivenList)}
        /\ \A f \in DOMAIN out :
             \E k \in 1..Len(GivenList) :
               GivenList[k].field = f /\ out[f] = ExpectedCondition(GivenList[k])
        /\ \A k \in 1..Len(GivenList) :
             (\A j \in 1..Len(GivenList) :
                j # k => GivenList[j].field # GivenList[k].field)
             => out[GivenList[k].field] = ExpectedCondition(GivenList[k])
        /\ GivenList = <<[field |-> "status", operator |-> "eq", value |-> "active"]>>
             => out = [f \in {"status"} |-> [k \in {"$eq"} |-> "active"]]

\* pulse.find was called with two triples on different fields, one of them
\* with an operator no schema knows, and both entries are in the match.
C19_Witness ==
  /\ FoundWithList
  /\ GivenList = <<[field |-> "status", operator |-> "bogus", value |-> "active"],
                   [field |-> "a", operator |-> "gt", value |-> "2"]>>
  /\ findCall.query["match"] =
       [f \in {"status", "a"} |->
          IF f = "status" THEN [k \in {"$bogus"} |-> "active"]
          ELSE [k \in {"$gt"} |-> "2"]]

\* C20: when several triples of the match list name the same field, the
\* entry of that field is the condition of the last of them alone, with the
\* one key of that triple; for [{a, eq, 1}, {a, gt, 2}] the match is
\* {a: {$gt: 2}}.
C20_LastWriteWins ==
  FoundWithList =>
    LET out == findCall.query["match"]
    IN  /\ \A k \in 1..Len(GivenList) :
             (\A j \in 1..Len(GivenList) :
                j > k => GivenList[j].field # GivenList[k].field)
             => /\ out[GivenList[k].field] = ExpectedCondition(GivenList[k])
                /\ DOMAIN out[GivenList[k].field] = {DollarKey(GivenList[k].operator)}
        /\ GivenList = <<[field |-> "a", operator |-> "eq", value |-> "1"],
                         [field |-> "a", operator |-> "gt", value |-> "2"]>>
             => out = [f \in {"a"} |-> [k \in {"$gt"} |-> "2"]]

\* pulse.find was called with [{a, eq, 1}, {a, gt, 2}] and built a match
\* whose only entry is a: {$gt: 2}.
C20_Witness ==
  /\ FoundWithList
  /\ GivenList = <<[field |-> "a", operator |-> "eq", value |-> "1"],
                   [field |-> "a", operator |-> "gt", value |-> "2"]>>
  /\ DOMAIN findCall.query["match"] = {"a"}
  /\ DOMAIN findCall.query["match"]["a"] = {"$gt"}
  /\ findCall.query["match"]["a"]["$gt"] = "2"

\* pulse.find has been called with a match given as a mapping from field
\* names to condition objects.
FoundWithMapping ==
  /\ findCall # NoCall
  /\ findData.flatMatch # {}
  /\ \A m \in findData.flatMatch : DOMAIN m \subseteq {"userId", "createdAt"}

\* The mapping given.
GivenMapping == CHOOSE m \in findData.flatMatch : TRUE

\* C21: for a match given as a flat mapping the call does not fail before
\* the transport is used and the query's match equals the mapping given:
\* every key with its condition object, copied as it is.
C21_FlatMatchCopied ==
  FoundWithMapping =>
    /\ findCall.outcome # "TypeError"
    /\ "match" \in DOMAIN findCall.query
    /\ findCall.query["match"] = GivenMapping

\* pulse.find has built a query from a descriptor with an orderBy list.
FoundWithOrder ==
  findCall.outcome \notin {"none", "TypeError"} /\ findData.orderBy # {}

\* The orderBy list given.
GivenOrder == CHOOSE l \in findData.orderBy : TRUE

\* C22: every orderBy entry is output, in input order, as {field,
\* direction} and nothing else, where direction is the entry's explicit
\* direction whenever one is given (0 and negative values included,
\* whatever the order keyword), else -1 for order 'desc', else 1.
C22_ExplicitDirectionWins ==
  FoundWithOrder =>
    /\ "orderBy" \in DOMAIN findCall.query
    /\ LET out == findCall.query["orderBy"]
       IN  /\ Len(out) = Len(GivenOrder)
           /\ \A k \in 1..Len(GivenOrder) :
                /\ DOMAIN out[k] = {"field", "direction"}
                /\ out[k].field = GivenOrder[k].field
                /\ GivenOrder[k].direction # {} =>
                     out[k].direction \in GivenOrder[k].direction
                /\ GivenOrder[k].direction = {} =>
                     out[k].direction =
                       IF GivenOrder[k].order = {"desc"} THEN -1 ELSE 1

\* C22 for the pulse.find of maxflowClient.ts alone.
C22_ExplicitDirectionWinsInClient ==
  findImpl = "maxflowClient.ts" => C22_ExplicitDirectionWins

\* pulse.find has built its query.
Found == findCall.outcome \notin {"none", "TypeError"}

\* C23: page, pageSize and search are in the query with exactly the value
\* given when the descriptor has them (0 included) and their key is absent
\* when it has not; no key is set for a part the descriptor lacks, and the
\* descriptor without any field yields the empty mapping.
C23_PassThroughAndOmission ==
  Found =>
    /\ \A key \in {"page", "pageSize", "search"} :
         /\ findData[key] # {} =>
              (key \in DOMAIN findCall.query /\ findCall.query[key] \in findData[key])
         /\ findData[key] = {} => key \notin DOMAIN findCall.query
    /\ "orderBy" \in DOMAIN findCall.query <=> findData.orderBy # {}
    /\ "match" \in DOMAIN findCall.query <=>
         (findData.match # {} \/ findData.flatMatch # {})
    /\ DOMAIN findCall.query \subseteq {"match", "page", "pageSize", "search", "orderBy"}
    /\ findData = NoFind => findCall.query = <<>>

\* pulse.find was called with page 0, pageSize 0 and a search and sent a
\* query holding exactly these three, each with the value given.
C23_Witness ==
  /\ findCall.outcome = "sent"
  /\ findData.page = {0} /\ findData.pageSize = {0} /\ findData.search # {}
  /\ DOMAIN findCall.query = {"page", "pageSize", "search"}
  /\ findCall.query["page"] = 0
  /\ findCall.query["pageSize"] = 0
  /\ findCall.query["search"] = [fields |-> <<"title">>, text |-> "x"]

\* C24: no authenticated request reaches the transport while a required
\* credential is unset: every authenticated operation that was sent carried
\* all four credentials set, also after a public call on the same client.
C24_NoAuthRequestWithoutCredentials ==
  \A k \in DOMAIN appCalls :
    (appCalls[k].kind = "auth" /\ appCalls[k].outcome = "sent") =>
      \A h \in AuthHeaderNames : ~Falsy(appCalls[k].headers[h])

\* C29: every request made by runPublic or getExecutionPublicStatus carries
\* x-max-team-id as its only identity header, so neither x-api-key nor
\* x-api-secret, also when authenticated calls were made before it.
C29_PublicRequestsCarryNoSecrets ==
  \A k \in DOMAIN appCalls :
    appCalls[k].kind = "public" =>
      /\ DOMAIN appCalls[k].headers = {"x-max-team-id"}
      /\ "x-api-key" \notin DOMAIN appCalls[k].headers
      /\ "x-api-secret" \notin DOMAIN appCalls[k].headers

\* An authenticated request that carried the secrets was sent, and a public
\* request was sent after it on the same client.
C29_Witness ==
  \E j, k \in DOMAIN appCalls :
    /\ j < k
    /\ appCalls[j].kind = "auth"
    /\ appCalls[j].outcome = "sent"
    /\ ~Falsy(appCalls[j].headers["x-api-key"])
    /\ ~Falsy(appCalls[j].headers["x-api-secret"])
    /\ appCalls[k].kind = "public"

\* C25: queue and timers stay in step: the queue is non-empty exactly when
\* a quiet timer is pending and exactly when a max-wait timer is pending,
\* there is at most one pending timer of either kind, and a flush leaves no
\* timer of the batch it took pending.
C25_QueueAndTimersInStep ==
  /\ [](/\ (Len(queue) > 0) <=> (QuietTimers(timers) # {})
        /\ (Len(queue) > 0) <=> (MaxTimers(timers) # {})
        /\ \A s, t \in timers : s.kind = t.kind => s = t)
  /\ [][FlushStep => timers' = {}]_vars

\* A batch has been flushed and the next one is queued with its own two
\* timers pending.
C25_Witness ==
  /\ nFlush >= 1
  /\ Len(queue) > 0
  /\ \E s, t \in timers : s.kind = "quiet" /\ t.kind = "max"
  /\ \A t \in timers : t.id \in {pushTimeout, maxAgeTimeout}

\* The items of the snapshot of flush f, in insertion order.
SnapshotIds(its, f) == {i \in DOMAIN its : its[i].flush = f}

\* The in-flight requests of item i.
RequestsOf(i) == {r \in inflight : r.item = i}

\* C26: item conservation: each item accepted by a non-immediate push is in
\* exactly one place: in the queue, in flight as part of exactly one flush
\* snapshot, or settled; no item enters two snapshots or returns to the
\* queue, and each snapshot is exactly the items enqueued since the
\* previous non-empty flush, in insertion order.
C26_ItemConservation ==
  /\ [](\A i \in DOMAIN items :
          /\ items[i].state \in {"queued", "sent", "done"}
          /\ (items[i].state = "queued") <=> (i \in Ids(queue))
          /\ (items[i].state = "queued") <=> (items[i].flush = 0)
          /\ (items[i].state = "sent") <=> (RequestsOf(i) # {})
          /\ Cardinality(RequestsOf(i)) <= 1
          /\ items[i].state = "done" => items[i].calls # <<>>)
  /\ [](\A k \in 1..Len(queue) : queue[k].id = Len(items) - Len(queue) + k)
  /\ [](\A i, j \in DOMAIN items :
          (i < j /\ items[j].flush > 0) =>
             /\ items[i].flush > 0
             /\ items[i].flush <= items[j].flush
             /\ items[i].flush = items[j].flush => items[i].req <= items[j].req)
  /\ [][\A i \in DOMAIN items :
          /\ items[i].flush # 0 => items'[i].flush = items[i].flush
          /\ items[i].state # "queued" => i \notin Ids(queue')
          /\ items[i].state = "done" => items'[i].state = "done"]_vars
  /\ [][FlushStep =>
          /\ SnapshotIds(items', nFlush') = Ids(queue)
          /\ Ids(queue) # {}
          /\ queue' = <<>>]_vars

\* Two flushes have taken one item each; the first item is settled, the
\* second is in flight.
C26_Witness ==
  /\ nFlush = 2
  /\ Len(items) = 2
  /\ items[1].flush = 1 /\ items[1].state = "done"
  /\ items[2].flush = 2 /\ items[2].state = "sent"
  /\ queue = <<>>

\* A snapshot of two items, taken in insertion order, is in flight.
C26_WitnessBatch ==
  /\ Len(items) = 2
  /\ items[1].flush = 1 /\ items[2].flush = 1
  /\ items[1].state = "sent" /\ items[2].state = "sent"

\* A step in which an operation reaches http(): an immediate push or a flush.
OperationStep == Len(immediates') = Len(immediates) + 1 \/ FlushStep

\* C27: a configuration error is recoverable: an operation that fails
\* validation caches no instance, changes no credential and initiates no
\* request, so the next operation validates again; once the credentials are
\* set the next operation reaches the transport; items flushed while a
\* credential was missing are each rejected once with the configuration
\* error, are not re-queued and have no request.
C27_ConfigErrorRecoverable ==
  /\ [][(OperationStep /\ ~axiosInstance /\ ValidateConfig # "ok") =>
          /\ axiosInstance' = FALSE
          /\ UNCHANGED <<credVars, inflight, dispatchSeq>>
          /\ Len(immediates') > Len(immediates) =>
               /\ immediates'[Len(immediates')].state = "rejected"
               /\ immediates'[Len(immediates')].error = ValidateConfig
               /\ UNCHANGED <<queueVars, items>>
          /\ FlushStep =>
               \A i \in Ids(queue) : items'[i].outcome = "config"]_vars
  /\ [][(OperationStep /\ ValidateConfig = "ok") =>
          /\ axiosInstance' = TRUE
          /\ dispatchSeq' > dispatchSeq
          /\ Len(immediates') > Len(immediates) =>
               immediates'[Len(immediates')].state = "sent"
          /\ FlushStep => \A i \in Ids(queue) : items'[i].req > dispatchSeq]_vars
  /\ [](\A i \in DOMAIN items :
          items[i].outcome = "config" =>
             /\ items[i].state = "done"
             /\ Len(items[i].calls) = 1
             /\ items[i].calls[1].fn = "reject"
             /\ items[i].req = 0
             /\ i \notin Ids(queue)
             /\ RequestsOf(i) = {})

\* An immediate push and a flushed item were rejected with the configuration
\* error, the missing credential was set, and the item pushed afterwards
\* reached the transport.
C27_Witness ==
  /\ Len(immediates) = 1
  /\ immediates[1].state = "rejected"
  /\ immediates[1].error # "none"
  /\ nSet = 1
  /\ Len(items) = 2
  /\ items[1].outcome = "config"
  /\ items[2].req > 0

\* The credentials and base URL the client holds.
CurrentCredentials ==
  [apiKey |-> apiKey, teamId |-> teamId, apiSecret |-> apiSecret,
   baseURL |-> baseURL]

\* C28: credentials are read at dispatch time: every request carries the
\* apiKey, teamId, apiSecret and baseURL current in the step that initiates
\* it, whatever was current when its item was enqueued; all requests of one
\* flush carry the same ones, and a later setter call does not change what
\* an initiated request carries.
C28_CredentialsReadAtDispatch ==
  /\ [][\A r \in inflight' \ inflight :
          /\ r.hdr = CurrentCredentials
          /\ r.hdr = CurrentCredentials'
          /\ \A q \in inflight' \ inflight :
               (r.item # 0 /\ q.item # 0) => q.hdr = r.hdr]_vars
  /\ [][credVars' # credVars => inflight' = inflight]_vars

\* Two items were enqueued, a setter was called, and the flush of their
\* batch sent both with the new credentials, not those of enqueue time.
C28_Witness ==
  /\ Len(items) = 2
  /\ items[1].flush = 1 /\ items[2].flush = 1
  /\ \E r, q \in inflight :
       /\ r.item = 1 /\ q.item = 2
       /\ r.hdr # items[1].enqueued
       /\ q.hdr # items[2].enqueued
       /\ r.hdr = q.hdr
       /\ r.hdr = CurrentCredentials

\* The base URL was changed while an item was queued and its request went
\* to the new one.
C28_WitnessBaseURL ==
  \E r \in inflight :
    /\ r.item # 0
    /\ r.hdr.baseURL # items[r.item].enqueued.baseURL

====
